---- MODULE Spec2Model ----
(***************************************************************************)
(* The Snowflake MCP server: the connection provider, the seven tools of   *)
(* mcp_server_snowflake/server.py, the single tool of the older            *)
(* mcp_server_snowflake.py, and the warehouse they talk to.                *)
(*                                                                         *)
(* Text is a sequence of one-character strings, so that upper-casing,      *)
(* substring search, stripping and concatenation are computed as Python    *)
(* computes them.  An optional value is a sequence of length 0 (None) or 1.*)
(***************************************************************************)
EXTENDS Integers, Sequences, FiniteSets, TLC

VARIABLES pc, env, config, connection_params, tools, schema, open, last

vars == <<pc, env, config, connection_params, tools, schema, open, last>>

(***************************************************************************)
(* Text                                                                    *)
(***************************************************************************)
Lower == <<"a", "b", "c", "d", "e", "f", "g", "h", "i", "j", "k", "l", "m",
           "n", "o", "p", "q", "r", "s", "t", "u", "v", "w", "x", "y", "z">>
Caps  == <<"A", "B", "C", "D", "E", "F", "G", "H", "I", "J", "K", "L", "M",
           "N", "O", "P", "Q", "R", "S", "T", "U", "V", "W", "X", "Y", "Z">>
Digits == <<"0", "1", "2", "3", "4", "5", "6", "7", "8", "9">>

None == <<>>
Some(v) == <<v>>

\* str.upper() on the lower-case letters
UpperOf == [c \in {Lower[i] : i \in DOMAIN Lower} |->
               Caps[CHOOSE i \in DOMAIN Lower : Lower[i] = c]]

\* str.upper(), one character
UpperChar(c) == IF c \in DOMAIN UpperOf THEN UpperOf[c] ELSE c

\* str.upper()
Upper(s) == [i \in DOMAIN s |-> UpperChar(s[i])]

\* `sub in s`
Contains(s, sub) ==
    \E i \in 0 .. (Len(s) - Len(sub)) :
        \A j \in 1 .. Len(sub) : s[i + j] = sub[j]

\* s.rstrip(ch)
RECURSIVE RStrip(_, _)
RStrip(s, ch) ==
    IF s # <<>> /\ s[Len(s)] = ch
    THEN RStrip(SubSeq(s, 1, Len(s) - 1), ch)
    ELSE s

\* str(n) of a natural number
RECURSIVE NatStr(_)
NatStr(n) ==
    IF n < 10 THEN <<Digits[n + 1]>>
    ELSE NatStr(n \div 10) \o <<Digits[(n % 10) + 1]>>

\* str(n) of an integer, as an f-string renders it
IntStr(n) == IF n < 0 THEN <<"-">> \o NatStr(0 - n) ELSE NatStr(n)

\* sep.join(parts)
RECURSIVE Join(_, _)
Join(sep, parts) ==
    IF parts = <<>> THEN <<>>
    ELSE IF Len(parts) = 1 THEN parts[1]
    ELSE parts[1] \o sep \o Join(sep, Tail(parts))

\* the text literals of server.py
kwLIMIT == <<"L", "I", "M", "I", "T">>
sLIMIT == <<" ", "L", "I", "M", "I", "T", " ">>
qShowDatabases == <<"S", "H", "O", "W", " ", "D", "A", "T", "A", "B", "A", "S", "E", "S">>
sLike == <<" ", "L", "I", "K", "E", " ", "'">>
sQuote == <<"'">>
sDot == <<".">>
qShowSchemas == <<"S", "H", "O", "W", " ", "S", "C", "H", "E", "M", "A", "S", " ", "I", "N", " ", "D", "A", "T", "A", "B", "A", "S", "E", " ">>
qShowTablesIn == <<"S", "H", "O", "W", " ", "T", "A", "B", "L", "E", "S", " ", "I", "N", " ", "S", "C", "H", "E", "M", "A", " ">>
\* the DROP TABLE prefix of drop_table pasted into describe_table
qDescribeAsDrop == <<"D", "R", "O", "P", " ", "T", "A", "B", "L", "E", " ">>
qDescribe == <<"D", "E", "S", "C", "R", "I", "B", "E", " ", "T", "A", "B", "L", "E", " ">>
qShowTablesLike == <<"S", "H", "O", "W", " ", "T", "A", "B", "L", "E", "S", " ", "L", "I", "K", "E", " ", "'">>
sInSchema == <<"'", " ", "I", "N", " ", "S", "C", "H", "E", "M", "A", " ">>
sCreate == <<"C", "R", "E", "A", "T", "E">>
sCreateOrReplace == <<"C", "R", "E", "A", "T", "E", " ", "O", "R", " ", "R", "E", "P", "L", "A", "C", "E">>
sTable == <<" ", "T", "A", "B", "L", "E", " ">>
sOpen == <<" ", "(", "\n">>
sSep == <<",", "\n">>
sIndent == <<" ", " ", " ", " ">>
sClose == <<"\n", ")">>
sTblComment == <<" ", "C", "O", "M", "M", "E", "N", "T", " ", "=", " ", "'">>
sNotNull == <<" ", "N", "O", "T", " ", "N", "U", "L", "L">>
sDefault == <<" ", "D", "E", "F", "A", "U", "L", "T", " ">>
sColComment == <<" ", "C", "O", "M", "M", "E", "N", "T", " ", "'">>
sDropTable == <<"D", "R", "O", "P", " ", "T", "A", "B", "L", "E", " ">>
sIfExists == <<"I", "F", " ", "E", "X", "I", "S", "T", "S", " ">>

(***************************************************************************)
(* Connection provider: SnowflakeConnection                                *)
(***************************************************************************)
RequiredKeys == {"account", "user", "password"}
OptionalKeys == {"warehouse", "database", "schema", "role"}

\* `if value:` on an optional text: neither None nor empty
Truthy(o) == o # None /\ o[1] # <<>>

\* SnowflakeConnection._get_connection_params: the three required keys are
\* read unconditionally, the optional ones added when truthy, and the keys
\* whose value is None removed.  An empty required value is kept.
GetConnectionParams(e) ==
    LET keys == {k \in RequiredKeys : e[k] # None}
                \cup {k \in OptionalKeys : Truthy(e[k])}
    IN  [k \in keys |-> e[k][1]]

(***************************************************************************)
(* The warehouse (vendor SDK and SQL engine).  Its schema state is a       *)
(* sequence of objects [name, kind, body] in the order SHOW returns them.  *)
(***************************************************************************)
kwCREATE == <<"C", "R", "E", "A", "T", "E">>
kwDROP == <<"D", "R", "O", "P">>
kwTABLE == <<"T", "A", "B", "L", "E">>
kwOR == <<"O", "R">>
kwREPLACE == <<"R", "E", "P", "L", "A", "C", "E">>
kwIF == <<"I", "F">>
kwEXISTS == <<"E", "X", "I", "S", "T", "S">>
kwSHOW == <<"S", "H", "O", "W">>
kwTABLES == <<"T", "A", "B", "L", "E", "S">>
kwDESCRIBE == <<"D", "E", "S", "C", "R", "I", "B", "E">>
kwLIKE == <<"L", "I", "K", "E">>
kwSCHEMA == <<"S", "C", "H", "E", "M", "A">>

IsSpace(c) == c = " " \/ c = "\n"

\* the whitespace-separated words of a statement
RECURSIVE WordsFrom(_, _, _)
WordsFrom(s, i, cur) ==
    IF i > Len(s)
    THEN IF cur = <<>> THEN <<>> ELSE <<cur>>
    ELSE IF IsSpace(s[i])
         THEN (IF cur = <<>> THEN <<>> ELSE <<cur>>) \o WordsFrom(s, i + 1, <<>>)
         ELSE WordsFrom(s, i + 1, Append(cur, s[i]))

Words(s) == WordsFrom(s, 1, <<>>)

\* the statement type: the leading keyword, upper-cased
StatementType(q) ==
    LET ws == Words(q) IN IF ws = <<>> THEN <<>> ELSE Upper(ws[1])

StartsWith(s, p) == Len(s) >= Len(p) /\ SubSeq(s, 1, Len(p)) = p

\* an unquoted identifier resolves case-insensitively
Ident(w) == Upper(RStrip(w, ";"))

Unquote(w) ==
    LET t == RStrip(w, ";")
    IN  IF Len(t) >= 2 /\ t[1] = "'" /\ t[Len(t)] = "'"
        THEN SubSeq(t, 2, Len(t) - 1) ELSE t

Exists(sch, name) == \E i \in DOMAIN sch : sch[i].name = name /\ sch[i].kind = "TABLE"

Without(sch, name) == SelectSeq(sch, LAMBDA o : o.name # name)

\* the parse of a table DDL statement from its words: [ddl, name, flag, body]
ParseDDL(ws) ==
    LET U(i) == Upper(ws[i])
        n == Len(ws)
    IN  IF n >= 5 /\ U(1) = kwCREATE /\ U(2) = kwOR /\ U(3) = kwREPLACE /\ U(4) = kwTABLE
        THEN [ddl |-> "create", name |-> Ident(ws[5]), flag |-> TRUE, body |-> SubSeq(ws, 6, n)]
        ELSE IF n >= 3 /\ U(1) = kwCREATE /\ U(2) = kwTABLE
        THEN [ddl |-> "create", name |-> Ident(ws[3]), flag |-> FALSE, body |-> SubSeq(ws, 4, n)]
        ELSE IF n >= 5 /\ U(1) = kwDROP /\ U(2) = kwTABLE /\ U(3) = kwIF /\ U(4) = kwEXISTS
        THEN [ddl |-> "drop", name |-> Ident(ws[5]), flag |-> TRUE, body |-> <<>>]
        ELSE IF n >= 3 /\ U(1) = kwDROP /\ U(2) = kwTABLE
        THEN [ddl |-> "drop", name |-> Ident(ws[3]), flag |-> FALSE, body |-> <<>>]
        ELSE [ddl |-> "none", name |-> <<>>, flag |-> FALSE, body |-> <<>>]

\* whether the warehouse rejects the statement in this schema state
Rejects(sch, ws, d) ==
    \/ ws = <<>>
    \/ d.ddl = "create" /\ ~d.flag /\ Exists(sch, d.name)
    \/ d.ddl = "drop" /\ ~d.flag /\ ~Exists(sch, d.name)
    \/ /\ Len(ws) >= 3 /\ Upper(ws[1]) = kwDESCRIBE /\ Upper(ws[2]) = kwTABLE
       /\ ~Exists(sch, Ident(ws[3]))

\* the schema state after the warehouse ran the statement
Effect(sch, d) ==
    IF d.ddl = "create"
    THEN Append(Without(sch, d.name), [name |-> d.name, kind |-> "TABLE", body |-> d.body])
    ELSE IF d.ddl = "drop" THEN Without(sch, d.name)
    ELSE sch

\* the last component of a qualified name
RECURSIVE Leaf(_)
Leaf(name) ==
    IF \E i \in DOMAIN name : name[i] = "."
    THEN Leaf(SubSeq(name, (CHOOSE i \in DOMAIN name : name[i] = "."
                                /\ \A j \in 1 .. (i - 1) : name[j] # ".") + 1, Len(name)))
    ELSE name

\* the word following keyword kw, or None
WordAfter(ws, kw) ==
    IF \E i \in 1 .. (Len(ws) - 1) : Upper(ws[i]) = kw
    THEN Some(ws[(CHOOSE i \in 1 .. (Len(ws) - 1) : Upper(ws[i]) = kw
                     /\ \A j \in 1 .. (i - 1) : Upper(ws[j]) # kw) + 1])
    ELSE None

\* the rows the warehouse returns for a statement it accepted; resp is what
\* the tool cannot control: whether SHOW TABLES lists views, the type of the
\* created_on column, and how many rows a query yields
ResultRows(sch, ws, d, resp) ==
    LET scope == WordAfter(ws, kwSCHEMA)
        like == WordAfter(ws, kwLIKE)
        shown(o) ==
            /\ resp.views \/ o.kind # "VIEW"
            /\ scope # None => StartsWith(o.name, Ident(scope[1]) \o sDot)
            /\ like # None => Leaf(o.name) = Upper(Unquote(like[1]))
        row(o) == [name |-> Leaf(o.name), kind |-> o.kind, created_on |-> resp.ts]
        listed == SelectSeq(sch, shown)
    IN  IF Len(ws) >= 2 /\ Upper(ws[1]) = kwSHOW /\ Upper(ws[2]) = kwTABLES
        THEN [i \in DOMAIN listed |-> row(listed[i])]
        ELSE IF d.ddl # "none"
        THEN <<[name |-> <<>>, kind |-> "STATUS", created_on |-> "None"]>>
        ELSE [i \in 1 .. resp.n |-> [name |-> <<"r">>, kind |-> "ROW", created_on |-> resp.ts]]

\* the warehouse's answer to a parsed statement: [rejected, schema, rows]
Answer(sch, ws, d, resp) ==
    LET rejected == Rejects(sch, ws, d)
    IN  [rejected |-> rejected,
         schema |-> IF rejected THEN sch ELSE Effect(sch, d),
         rows |-> IF rejected THEN <<>> ELSE ResultRows(sch, ws, d, resp)]

AnswerWords(sch, ws, resp) == Answer(sch, ws, ParseDDL(ws), resp)

\* cursor.execute(query) at the warehouse
Warehouse(sch, query, resp) == AnswerWords(sch, Words(query), resp)

(***************************************************************************)
(* SnowflakeConnection.get_connection / execute_query.  F is the set of    *)
(* SDK calls that raise in this run: "connect", "cursor", "execute",       *)
(* "fetch", "cursor_close".  The result records the exception that leaves  *)
(* the method ("" for none), the rows, the statements handed to            *)
(* cursor.execute, the connections opened and those still open on return.  *)
(***************************************************************************)
Faults == {"connect", "cursor", "execute", "fetch", "cursor_close"}

\* get_connection: connect, then make the cursor; an exception is logged and
\* re-raised, the connection made before it is not closed
GetConnection(F) ==
    IF "connect" \in F THEN [exc |-> "ConnectError", opened |-> 0]
    ELSE IF "cursor" \in F THEN [exc |-> "CursorError", opened |-> 1]
    ELSE [exc |-> "", opened |-> 1]

\* the finally block: cursor.close() then conn.close(); the number of
\* connections it leaves open
FinallyClose(F) == IF "cursor_close" \in F THEN 1 ELSE 0

\* lines 118-125: what the method makes of the connection attempt g and of
\* the warehouse's answer w
TryFinally(g, w, sch, query, F) ==
    LET failed == "execute" \in F \/ w.rejected
        tryExc == IF failed THEN "ExecError"
                  ELSE IF "fetch" \in F THEN "FetchError" ELSE ""
        exc == IF "cursor_close" \in F THEN "CloseError" ELSE tryExc
    IN  IF g.exc # ""
        THEN [exc |-> g.exc, rows |-> <<>>, sent |-> <<>>, opened |-> g.opened,
              leaked |-> g.opened, schema |-> sch]
        ELSE [exc |-> exc,
              rows |-> IF exc = "" THEN w.rows ELSE <<>>,
              sent |-> <<query>>, opened |-> 1, leaked |-> FinallyClose(F),
              schema |-> IF failed THEN sch ELSE w.schema]

SfConnExecuteQuery(sch, query, F, resp) ==
    TryFinally(GetConnection(F), Warehouse(sch, query, resp), sch, query, F)

(***************************************************************************)
(* Tool bodies.  Each yields [exc, envelope, sent, opened, leaked, schema, *)
(* rows]: the exception raised inside the try block ("" for none), the     *)
(* envelope of the success path, and what happened at the warehouse.       *)
(***************************************************************************)
\* `x.isoformat() if x else None` on a created_on value of the given type
IsoOrNone(v) == IF v = "None" THEN "None" ELSE IF v = "datetime" THEN "iso" ELSE "AttributeError"

\* json.dumps accepts None, text and numbers, not a Decimal or a datetime
Serializable(v) == v \notin {"decimal", "datetime"}

Body(exc, envelope, r) ==
    [exc |-> exc, envelope |-> envelope, sent |-> r.sent, opened |-> r.opened,
     leaked |-> r.leaked, schema |-> r.schema, rows |-> r.rows]

\* a limit check that forgets to upper-case the query
WithLimitCaseSensitive(query, limit) ==
    IF limit # None /\ limit[1] # 0 /\ ~Contains(query, kwLIMIT)
    THEN RStrip(query, ";") \o sLIMIT \o IntStr(limit[1])
    ELSE query

\* lines 149-151: the statement execute_query sends
WithLimit(query, limit) ==
    IF limit # None /\ limit[1] # 0 /\ ~Contains(Upper(query), kwLIMIT)
    THEN RStrip(query, ";") \o sLIMIT \o IntStr(limit[1])
    ELSE query

\* lines 155-165: isoformat on the values that have it, then json.dumps
ExecuteQueryReshape(r) ==
    LET data == [i \in DOMAIN r.rows |->
                    [r.rows[i] EXCEPT !.created_on =
                        IF @ = "datetime" THEN "iso" ELSE @]]
        exc == IF r.exc # "" THEN r.exc
               ELSE IF \E i \in DOMAIN data : ~Serializable(data[i].created_on)
                    THEN "TypeError" ELSE ""
    IN  Body(exc, [success |-> TRUE, row_count |-> Len(r.rows), data |-> data], r)

ExecuteQueryBody(sch, query, limit, F, resp) ==
    ExecuteQueryReshape(SfConnExecuteQuery(sch, WithLimit(query, limit), F, resp))

\* the `if pattern:` suffix of the three list tools
LikeClause(pattern) ==
    IF Truthy(pattern) THEN sLike \o pattern[1] \o sQuote ELSE <<>>

\* the comprehension of list_databases / list_schemas over the rows
ListReshape(r, head, key) ==
    LET items == [i \in DOMAIN r.rows |->
                    [name |-> r.rows[i].name, created_on |-> IsoOrNone(r.rows[i].created_on)]]
        exc == IF r.exc # "" THEN r.exc
               ELSE IF \E i \in DOMAIN items : items[i].created_on = "AttributeError"
                    THEN "AttributeError" ELSE ""
    IN  Body(exc, head @@ [count |-> Len(items)] @@ (key :> items), r)

ListDatabasesBody(sch, pattern, F, resp) ==
    ListReshape(SfConnExecuteQuery(sch, qShowDatabases \o LikeClause(pattern), F, resp),
                [success |-> TRUE], "databases")

ListSchemasBody(sch, database_name, pattern, F, resp) ==
    ListReshape(SfConnExecuteQuery(sch, qShowSchemas \o database_name \o LikeClause(pattern),
                                   F, resp),
                [success |-> TRUE, database |-> database_name], "schemas")

\* a list_tables that never skips a row
KeepRowAlways(row, include_views) == TRUE

\* lines 291-292: the rows list_tables keeps
KeepRow(row, include_views) == ~(~include_views /\ row.kind = "VIEW")

\* lines 288-311: the loop over the rows and the envelope
ListTablesReshape(r, database_name, schema_name, include_views) ==
    LET kept == SelectSeq(r.rows, LAMBDA row : KeepRow(row, include_views))
        tables == [i \in DOMAIN kept |->
                    [name |-> kept[i].name, kind |-> kept[i].kind,
                     created_on |-> IsoOrNone(kept[i].created_on)]]
        exc == IF r.exc # "" THEN r.exc
               ELSE IF \E i \in DOMAIN tables : tables[i].created_on = "AttributeError"
                    THEN "AttributeError" ELSE ""
    IN  Body(exc, [success |-> TRUE, database |-> database_name, schema |-> schema_name,
                   count |-> Len(tables), tables |-> tables], r)

ListTablesBody(sch, database_name, schema_name, pattern, include_views, F, resp) ==
    ListTablesReshape(
        SfConnExecuteQuery(sch, qShowTablesIn \o database_name \o sDot \o schema_name
                                    \o LikeClause(pattern), F, resp),
        database_name, schema_name, include_views)

\* lines 360-379 of describe_table: the envelope from the column rows r1 and
\* the metadata rows r2, each fetched on its own connection
DescribeReshape(r1, r2, table_name) ==
    LET columns == [i \in DOMAIN r1.rows |-> [name |-> r1.rows[i].name]]
        both == [sent |-> r1.sent \o r2.sent, opened |-> r1.opened + r2.opened,
                 leaked |-> r1.leaked + r2.leaked, schema |-> r2.schema, rows |-> r2.rows]
        created == IF r2.rows = <<>> THEN "None" ELSE IsoOrNone(r2.rows[1].created_on)
        table_info == IF r2.rows = <<>> THEN <<>>
                      ELSE <<[kind |-> r2.rows[1].kind, created_on |-> created]>>
    IN  IF r2.exc # "" THEN Body(r2.exc, [success |-> TRUE], both)
        ELSE IF created = "AttributeError" THEN Body("AttributeError", [success |-> TRUE], both)
        ELSE Body("", [success |-> TRUE, table |-> table_name,
                       info |-> table_info, columns |-> columns], both)

\* lines 357-358: the second statement runs only when the first did not raise
DescribeInfo(r1, database_name, schema_name, table_name, F2, resp) ==
    IF r1.exc # "" THEN Body(r1.exc, [success |-> TRUE], r1)
    ELSE DescribeReshape(r1,
             SfConnExecuteQuery(r1.schema,
                 qShowTablesLike \o table_name \o sInSchema \o database_name \o sDot
                     \o schema_name, F2, resp),
             table_name)

DescribeTableBody(sch, database_name, schema_name, table_name, F1, F2, resp) ==
    DescribeInfo(
        SfConnExecuteQuery(sch, qDescribe \o database_name \o sDot \o schema_name \o sDot
                                    \o table_name, F1, resp),
        database_name, schema_name, table_name, F2, resp)

\* col.get(key, default)
Get(col, key, default) == IF key \in DOMAIN col THEN col[key] ELSE default

\* col['name'] / col['type'] raise KeyError
MissingKey(col) == "name" \notin DOMAIN col \/ "type" \notin DOMAIN col

\* a column definition whose nullable defaults to False
ColumnDefNotNullDefault(col) ==
    col["name"] \o <<" ">> \o col["type"]
        \o (IF ~Get(col, "nullable", FALSE) THEN sNotNull ELSE <<>>)
        \o (IF "default" \in DOMAIN col THEN sDefault \o col["default"] ELSE <<>>)
        \o (IF "comment" \in DOMAIN col THEN sColComment \o col["comment"] \o sQuote ELSE <<>>)

\* lines 418-427: one column definition
ColumnDef(col) ==
    col["name"] \o <<" ">> \o col["type"]
        \o (IF ~Get(col, "nullable", TRUE) THEN sNotNull ELSE <<>>)
        \o (IF "default" \in DOMAIN col THEN sDefault \o col["default"] ELSE <<>>)
        \o (IF "comment" \in DOMAIN col THEN sColComment \o col["comment"] \o sQuote ELSE <<>>)

\* lines 414-436: the CREATE TABLE statement
CreateTableQuery(database_name, schema_name, table_name, columns, comment, replace_if_exists) ==
    (IF replace_if_exists THEN sCreateOrReplace ELSE sCreate)
        \o sTable \o database_name \o sDot \o schema_name \o sDot \o table_name \o sOpen
        \o Join(sSep, [i \in DOMAIN columns |-> sIndent \o ColumnDef(columns[i])])
        \o sClose
        \o (IF Truthy(comment) THEN sTblComment \o comment[1] \o sQuote ELSE <<>>)

\* what a tool body leaves behind when it raised before reaching sf_conn
NotConnected(sch) ==
    [sent |-> <<>>, opened |-> 0, leaked |-> 0, schema |-> sch, rows |-> <<>>]

\* lines 438-444: run the statement and report it
RunDDL(sch, query, F, resp) ==
    LET r == SfConnExecuteQuery(sch, query, F, resp)
    IN  Body(r.exc, [success |-> TRUE, query |-> query], r)

\* a create_table that acquires its connection before building the statement
CreateTableBodyConnectFirst(sch, database_name, schema_name, table_name, columns, comment, replace_if_exists, F, resp) ==
    LET g == GetConnection(F)
    IN  IF g.exc # ""
        THEN Body(g.exc, [success |-> TRUE],
                  [NotConnected(sch) EXCEPT !.opened = g.opened, !.leaked = g.opened])
        ELSE IF \E i \in DOMAIN columns : MissingKey(columns[i])
        THEN Body("KeyError", [success |-> TRUE],
                  [NotConnected(sch) EXCEPT !.opened = 1, !.leaked = FinallyClose(F)])
        ELSE RunDDL(sch, CreateTableQuery(database_name, schema_name, table_name, columns,
                                          comment, replace_if_exists), F, resp)

CreateTableBody(sch, database_name, schema_name, table_name, columns, comment, replace_if_exists, F, resp) ==
    IF \E i \in DOMAIN columns : MissingKey(columns[i])
    THEN Body("KeyError", [success |-> TRUE], NotConnected(sch))
    ELSE RunDDL(sch, CreateTableQuery(database_name, schema_name, table_name, columns,
                                      comment, replace_if_exists), F, resp)

\* lines 474-483 of drop_table
DropTableBody(sch, database_name, schema_name, table_name, if_exists, F, resp) ==
    RunDDL(sch, sDropTable \o (IF if_exists THEN sIfExists ELSE <<>>)
                    \o database_name \o sDot \o schema_name \o sDot \o table_name, F, resp)

\* a tool boundary that catches only the warehouse's rejection of a statement
ToolBoundaryExecErrorOnly(b) ==
    IF b.exc = "" THEN [returned |-> TRUE, envelope |-> b.envelope]
    ELSE IF b.exc = "ExecError"
    THEN [returned |-> TRUE, envelope |-> [success |-> FALSE, error |-> b.exc]]
    ELSE [returned |-> FALSE, envelope |-> [success |-> FALSE, error |-> b.exc]]

\* `try: ... except Exception as e: return json.dumps({"success": False,
\* "error": str(e)})`: what the caller of a tool gets
ToolBoundary(b) ==
    IF b.exc = "" THEN [returned |-> TRUE, envelope |-> b.envelope]
    ELSE [returned |-> TRUE, envelope |-> [success |-> FALSE, error |-> b.exc]]

(***************************************************************************)
(* mcp_server_snowflake.py: get_snowflake_connection and its one tool      *)
(***************************************************************************)
\* lines 50-68: the connection is None when connect raised; the cursor is a
\* context manager inside try/except/finally, and finally closes the
\* connection whatever happened
ExecuteSnowflakeQueryTry(w, sch, query, F) ==
    LET failed == "execute" \in F \/ w.rejected
        tryExc == IF failed THEN "ExecError"
                  ELSE IF "fetch" \in F THEN "FetchError"
                  ELSE IF \E i \in DOMAIN w.rows : ~Serializable(w.rows[i].created_on)
                       THEN "TypeError" ELSE ""
        exc == IF "cursor_close" \in F THEN "CloseError" ELSE tryExc
        quiet == [sent |-> <<>>, leaked |-> 0, schema |-> sch, rows |-> <<>>]
    IN  IF "connect" \in F
        THEN [exc |-> "", envelope |-> [error |-> "Failed to connect to Snowflake."],
              opened |-> 0] @@ quiet
        ELSE IF "cursor" \in F
        THEN [exc |-> "", envelope |-> [error |-> "CursorError"], opened |-> 1] @@ quiet
        ELSE [exc |-> "",
              envelope |-> IF exc = "" THEN [data |-> w.rows] ELSE [error |-> exc],
              sent |-> <<query>>, opened |-> 1, leaked |-> 0,
              schema |-> IF failed THEN sch ELSE w.schema,
              rows |-> IF exc = "" THEN w.rows ELSE <<>>]

ExecuteSnowflakeQueryBody(sch, query, F, resp) ==
    ExecuteSnowflakeQueryTry(Warehouse(sch, query, resp), sch, query, F)

(***************************************************************************)
(* Bounds and the inputs drawn in each step                                *)
(***************************************************************************)
MaxOpen == 2
MaxRows == 1
MaxColumns == 3

\* the exit paths of sf_conn.execute_query: nothing raises, one SDK call
\* raises, or the try block raises and then cursor.close() raises as well
FaultSets == {{}} \cup {{f} : f \in Faults}
                 \cup {{"execute", "cursor_close"}, {"fetch", "cursor_close"}}

\* the exit paths tried for the second statement of describe_table
SecondFaultSets == {{}, {"execute"}, {"cursor_close"}}

TsKinds == {"None", "datetime", "decimal"}

tD == <<"d">>
tS == <<"s">>
tT == <<"t">>
tU == <<"u">>

\* the functions decorated with @mcp.tool() in server.py
ToolIds == {"execute_query", "list_databases", "list_schemas", "list_tables",
            "describe_table", "create_table", "drop_table"}

\* the name a tool is registered under: the function's name
ToolName(id) ==
    CASE id = "execute_query" -> <<"e", "x", "e", "c", "u", "t", "e", "_", "q", "u", "e", "r", "y">>
    [] id = "list_databases" -> <<"l", "i", "s", "t", "_", "d", "a", "t", "a", "b", "a", "s", "e", "s">>
    [] id = "list_schemas" -> <<"l", "i", "s", "t", "_", "s", "c", "h", "e", "m", "a", "s">>
    [] id = "list_tables" -> <<"l", "i", "s", "t", "_", "t", "a", "b", "l", "e", "s">>
    [] id = "describe_table" -> <<"d", "e", "s", "c", "r", "i", "b", "e", "_", "t", "a", "b", "l", "e">>
    [] id = "create_table" -> <<"c", "r", "e", "a", "t", "e", "_", "t", "a", "b", "l", "e">>
    [] id = "drop_table" -> <<"d", "r", "o", "p", "_", "t", "a", "b", "l", "e">>

StaticTools == {ToolName(id) : id \in ToolIds}

qSelect1 == <<"S", "E", "L", "E", "C", "T", " ", "1">>
qDropT == <<"D", "R", "O", "P", " ", "T", "A", "B", "L", "E", " ", "d", ".", "s", ".", "t">>
tINT == <<"I", "N", "T">>
tId == <<"i", "d">>



\* the objects of schema d.s the warehouse starts with
TableT == [name |-> <<"D", ".", "S", ".", "T">>, kind |-> "TABLE", body |-> <<>>]
ViewV == [name |-> <<"D", ".", "S", ".", "V">>, kind |-> "VIEW", body |-> <<>>]
InitSchemas == {<<TableT, ViewV>>}

\* process environments: a required credential may be unset or empty
Envs ==
    [account : {None, Some(<<"a">>)}, user : {None, Some(<<"u">>)},
     password : {None, Some(<<>>), Some(<<"p">>)},
     warehouse : {None, Some(<<>>), Some(<<"w">>)},
     database : {None}, schema : {None}, role : {None}]
FullEnv ==
    [account |-> Some(<<"a">>), user |-> Some(<<"u">>), password |-> Some(<<"p">>),
     warehouse |-> Some(<<"w">>), database |-> None, schema |-> None, role |-> None]

NoCall == [tool |-> "none", args |-> <<>>, raised |-> "", returned |-> TRUE, envelope |-> <<>>,
           sent |-> <<>>, opened |-> 0, closed |-> 0, rows |-> <<>>]

(***************************************************************************)
(* Startup                                                                 *)
(***************************************************************************)
\* importing server.py: line 129 builds sf_conn from the environment, lines
\* 136-490 register the seven tools; nothing validates the parameters and
\* the service configuration document is never read
Boot ==
    /\ pc = "start"
    /\ pc' = "serving"
    /\ connection_params' = GetConnectionParams(env)
    /\ tools' = StaticTools
    /\ UNCHANGED <<env, config, schema, open, last>>

\* importing the package: __init__.py line 30 imports server (which runs as
\* in Boot) and then the name main, which server.py does not define
ImportPackage ==
    /\ pc = "start"
    /\ pc' = "import_error"
    /\ connection_params' = GetConnectionParams(env)
    /\ tools' = StaticTools
    /\ UNCHANGED <<env, config, schema, open, last>>

(***************************************************************************)
(* Tool calls: one step is one whole call                                  *)
(***************************************************************************)
Record(tool, args, out, b) ==
    [tool |-> tool, args |-> args, raised |-> b.exc, returned |-> out.returned,
     envelope |-> out.envelope, sent |-> b.sent, opened |-> b.opened, closed |-> b.opened - b.leaked, rows |-> b.rows]

\* line 108: connect(**self.connection_params), the keyword arguments of the
\* connections a call opened
ConnectedWith(stored, b) == IF b.opened > 0 THEN Some(stored) ELSE None

Returns(tool, args, b) ==
    /\ pc = "serving"
    /\ ToolName(tool) \in tools
    /\ open + b.leaked <= MaxOpen
    /\ schema' = b.schema
    /\ open' = open + b.leaked
    /\ last' = Record(tool, args, ToolBoundary(b), b)
                   @@ [connected_with |-> ConnectedWith(connection_params, b)]
    /\ UNCHANGED <<pc, env, config, connection_params, tools>>

execute_query(query, limit, F, resp) ==
    Returns("execute_query", [query |-> query, limit |-> limit],
            ExecuteQueryBody(schema, query, limit, F, resp))

list_databases(pattern, F, resp) ==
    Returns("list_databases", [pattern |-> pattern],
            ListDatabasesBody(schema, pattern, F, resp))

list_schemas(database_name, pattern, F, resp) ==
    Returns("list_schemas", [pattern |-> pattern],
            ListSchemasBody(schema, database_name, pattern, F, resp))

list_tables(database_name, schema_name, pattern, include_views, F, resp) ==
    Returns("list_tables", [pattern |-> pattern, include_views |-> include_views],
            ListTablesBody(schema, database_name, schema_name, pattern, include_views, F, resp))

describe_table(database_name, schema_name, table_name, F1, F2, resp) ==
    Returns("describe_table", [table_name |-> table_name],
            DescribeTableBody(schema, database_name, schema_name, table_name, F1, F2, resp))

create_table(database_name, schema_name, table_name, columns, comment, replace_if_exists, F, resp) ==
    Returns("create_table", [table_name |-> table_name, columns |-> columns],
            CreateTableBody(schema, database_name, schema_name, table_name, columns,
                            comment, replace_if_exists, F, resp))

drop_table(database_name, schema_name, table_name, if_exists, F, resp) ==
    Returns("drop_table", [table_name |-> table_name],
            DropTableBody(schema, database_name, schema_name, table_name, if_exists, F, resp))

\* the tool of mcp_server_snowflake.py, a server of its own on the same warehouse
ReturnsOld(args, b) ==
    /\ open + b.leaked <= MaxOpen
    /\ schema' = b.schema
    /\ open' = open + b.leaked
    /\ last' = Record("execute_snowflake_query", args,
                      [returned |-> TRUE, envelope |-> b.envelope], b)
    /\ UNCHANGED <<pc, env, config, connection_params, tools>>

execute_snowflake_query(query, F, resp) ==
    ReturnsOld([query |-> query], ExecuteSnowflakeQueryBody(schema, query, F, resp))

(***************************************************************************)
(* Resources.  A dict is an object: "stored" is the one                    *)
(* sf_conn.connection_params refers to, "params" the one copy() makes.     *)
(***************************************************************************)
\* dict.pop(key, None)
Pop(d, key) == [k \in DOMAIN d \ {key} |-> d[k]]

\* line 510: bool(params.get("account") and params.get("user"))
Configured(params) ==
    /\ "account" \in DOMAIN params /\ params["account"] # <<>>
    /\ "user" \in DOMAIN params /\ params["user"] # <<>>

\* a get_connection_info that pops from the stored dict itself
GetConnectionInfoNoCopy(stored) ==
    LET heap0 == [stored |-> stored]
        heap1 == [heap0 EXCEPT !.stored = Pop(@, "password")]
    IN  [stored |-> heap1.stored,
         returned |-> [connection_params |-> heap1.stored,
                       configured |-> Configured(heap1.stored)]]

\* lines 504-511: copy the stored dict, pop the password from the copy
GetConnectionInfo(stored) ==
    LET heap0 == [stored |-> stored, params |-> stored]
        heap1 == [heap0 EXCEPT !.params = Pop(@, "password")]
    IN  [stored |-> heap1.stored,
         returned |-> [connection_params |-> heap1.params,
                       configured |-> Configured(heap1.params)]]

\* lines 514-546: the number of examples in the static list
NumExamples == 6

ReadsResource(name, out, stored) ==
    /\ pc = "serving"
    /\ connection_params' = stored
    /\ last' = [NoCall EXCEPT !.tool = name, !.envelope = out]
    /\ UNCHANGED <<pc, env, config, tools, schema, open>>

get_connection_info ==
    LET r == GetConnectionInfo(connection_params)
    IN  ReadsResource("get_connection_info", r.returned, r.stored)

get_query_examples ==
    ReadsResource("get_query_examples", [examples |-> NumExamples], connection_params)

(***************************************************************************)
(* The service configuration document named by SERVICE_CONFIG_FILE: the    *)
(* statement types it disallows and the services it declares               *)
(***************************************************************************)
kwSELECT == <<"S", "E", "L", "E", "C", "T">>
svcDocs == <<"M", "y", " ", "D", "o", "c", "s">>
svcSales == <<"s", "a", "l", "e", "s">>
Descriptor(name) == [service_name |-> name]
NoConfig == [disallowed |-> {}, search_services |-> <<>>, analyst_services |-> <<>>]
Configs ==
    [disallowed : {{}, {kwDROP}, {kwDROP, kwCREATE}},
     search_services : {<<>>, <<Descriptor(<<>>)>>, <<Descriptor(svcDocs)>>},
     analyst_services : {<<>>, <<Descriptor(svcSales)>>}]

(***************************************************************************)
(* Specifications                                                          *)
(***************************************************************************)
InitWith(envs, configs, schemas) ==
    /\ pc = "start"
    /\ env \in envs
    /\ config \in configs
    /\ connection_params = <<>>
    /\ tools = {}
    /\ schema \in schemas
    /\ open = 0
    /\ last = NoCall

\* what the warehouse answers in a run: the type of created_on, whether
\* SHOW TABLES lists views
Resp(ts, views) == [views |-> views, ts |-> ts, n |-> MaxRows]

GoodColumns == <<[name |-> tId, type |-> tINT, nullable |-> FALSE]>>
BadColumns == <<[name |-> tId, type |-> tINT], [name |-> tId]>>

\* every tool, every exit path, in a process started with full credentials
Init == InitWith({FullEnv}, {NoConfig}, InitSchemas)

Next ==
    \/ Boot
    \/ ImportPackage
    \/ \E F \in FaultSets, ts \in TsKinds :
        \/ \E q \in {qSelect1, qDropT} : execute_query(q, None, F, Resp(ts, FALSE))
        \/ list_databases(None, F, Resp(ts, FALSE))
        \/ list_schemas(tD, None, F, Resp(ts, FALSE))
        \/ \E v \in BOOLEAN, w \in BOOLEAN : list_tables(tD, tS, None, v, F, Resp(ts, w))
        \/ \E F2 \in SecondFaultSets : describe_table(tD, tS, tT, F, F2, Resp(ts, FALSE))
        \/ \E cols \in {GoodColumns, BadColumns} :
              create_table(tD, tS, tU, cols, None, FALSE, F, Resp(ts, FALSE))
        \/ \E e \in BOOLEAN : drop_table(tD, tS, tT, e, F, Resp(ts, FALSE))
        \/ \E q \in {qSelect1, qDropT} : execute_snowflake_query(q, F, Resp(ts, FALSE))

Spec == Init /\ [][Next]_vars

(***************************************************************************)
(* Startup under every environment and configuration document              *)
(***************************************************************************)
InitStartup == InitWith(Envs, Configs, InitSchemas)

NextStartup ==
    \/ Boot
    \/ ImportPackage
    \/ \E F \in {{}, {"connect"}} :
        \/ \E q \in {qSelect1, qDropT} : execute_query(q, None, F, Resp("None", FALSE))
        \/ drop_table(tD, tS, tT, TRUE, F, Resp("None", FALSE))

SpecStartup == InitStartup /\ [][NextStartup]_vars

(***************************************************************************)
(* execute_query over query texts with and without a LIMIT                 *)
(***************************************************************************)
MaxLimit == 12

\* every spelling of LIMIT in upper and lower case letters
LimitSpellings ==
    {w \in [1 .. 5 -> {"L", "l", "I", "i", "M", "m", "T", "t"}] :
        \A i \in 1 .. 5 : UpperChar(w[i]) = kwLIMIT[i]}

qSelectSemi == <<"S", "E", "L", "E", "C", "T", " ", "1", ";", ";">>
qLimi == <<"s", "e", "l", "e", "c", "t", " ", "l", "i", "m", "i", " ", "t">>

LimitQueries ==
    {pre \o w \o suf : pre \in {<<"q", " ">>, <<"x", "_">>}, w \in LimitSpellings,
                       suf \in {<<>>, <<" ", "3", ";">>}}
        \cup {qSelect1, qSelectSemi, qLimi}

LimitArgs == {None, Some(0), Some(1), Some(MaxLimit)}

InitLimit == InitWith({FullEnv}, {NoConfig}, InitSchemas)

NextLimit ==
    \/ Boot
    \/ \E q \in LimitQueries, l \in LimitArgs :
          execute_query(q, l, {}, Resp("None", FALSE))

SpecLimit == InitLimit /\ [][NextLimit]_vars

(***************************************************************************)
(* create_table over column specs                                          *)
(***************************************************************************)
tZero == <<"0">>
tNote == <<"n", "o", "t", "e">>

\* a well-formed column spec with every choice of the optional keys
FullColumnSpecs ==
    {[name |-> tId, type |-> tINT] @@ nu @@ de @@ co :
        nu \in {<<>>, [nullable |-> TRUE], [nullable |-> FALSE]},
        de \in {<<>>, [default |-> tZero]},
        co \in {<<>>, [comment |-> tNote]}}

\* well-formed and malformed column specs
MixedColumnSpecs == {[name |-> tId, type |-> tINT], [name |-> tId], [type |-> tINT]}

BuildColumnLists ==
    {<<c>> : c \in FullColumnSpecs}
        \cup UNION {[1 .. k -> MixedColumnSpecs] : k \in 1 .. MaxColumns}

InitColumns == InitWith({FullEnv}, {NoConfig}, InitSchemas)

NextColumns ==
    \/ Boot
    \/ \E cols \in BuildColumnLists :
          create_table(tD, tS, tU, cols, None, TRUE, {}, Resp("None", FALSE))

SpecColumns == InitColumns /\ [][NextColumns]_vars

(***************************************************************************)
(* Tool calls and resource reads under every environment                   *)
(***************************************************************************)
InitParams == InitWith(Envs, {NoConfig}, InitSchemas)

NextParams ==
    \/ Boot
    \/ get_connection_info
    \/ get_query_examples
    \/ \E F \in {{}, {"connect"}, {"execute"}} :
        \/ execute_query(qSelect1, None, F, Resp("None", FALSE))
        \/ list_databases(None, F, Resp("None", FALSE))
        \/ drop_table(tD, tS, tT, TRUE, F, Resp("None", FALSE))

SpecParams == InitParams /\ [][NextParams]_vars

(***************************************************************************)
(* What the specification document says of the registrar (no code of the  *)
(* repository implements it)                                               *)
(***************************************************************************)
sSearch == <<"s", "e", "a", "r", "c", "h", "_">>
sAnalyst == <<"a", "n", "a", "l", "y", "s", "t", "_">>

LowerChar(c) ==
    IF \E i \in DOMAIN Caps : Caps[i] = c
    THEN Lower[CHOOSE i \in DOMAIN Caps : Caps[i] = c] ELSE c

\* lowercase, every character that is not a letter or a digit replaced
Sanitize(name) ==
    [i \in DOMAIN name |->
        IF \E k \in DOMAIN Lower : Lower[k] = LowerChar(name[i])
        THEN LowerChar(name[i])
        ELSE IF \E k \in DOMAIN Digits : Digits[k] = name[i] THEN name[i] ELSE "_"]

(***************************************************************************)
(* Properties                                                              *)
(***************************************************************************)

\* C1: a call of any of the seven tools returns to its caller, and when an
\* exception was raised inside the tool body what it returns is the envelope
\* {success: false, error: <message of that exception>}; the exception never
\* propagates.
C1_FailuresBecomeEnvelopes ==
    last.tool \in ToolIds =>
        /\ last.returned
        /\ last.raised # "" => last.envelope = [success |-> FALSE, error |-> last.raised]
        /\ last.raised = "" => last.envelope.success

\* a list_tables call whose reshaping of the rows raised
C1_Witness ==
    /\ last.tool = "list_tables"
    /\ last.raised = "AttributeError"
    /\ last.returned
    /\ ~last.envelope.success

\* C2: a call whose statement type is in the configured disallowed set
\* returns an authorization error, opens no connection and sends no statement.
C2_DisallowedNeverExecuted ==
    LET type == IF last.tool = "execute_query" THEN StatementType(last.args.query)
                ELSE kwDROP
    IN  (last.tool \in {"execute_query", "drop_table"} /\ type \in config.disallowed) =>
            /\ last.envelope = [success |-> FALSE, error |-> "AuthorizationError"]
            /\ last.opened = 0
            /\ last.sent = <<>>

\* C3: every connection a tool call opened is closed when the call returns,
\* so no connection is ever left open.
C3_ConnectionsClosed == open = 0 /\ last.closed = last.opened

\* C4 as stated: a call of execute_query, list_databases, list_schemas,
\* list_tables or describe_table leaves the remote schema state unchanged.
C4_AllButDDLToolsReadOnly ==
    [][last'.tool \in {"execute_query", "list_databases", "list_schemas", "list_tables",
                       "describe_table"} => schema' = schema]_vars

\* C4 as amended: the four listing and describing tools leave the remote
\* schema state unchanged for every input, and so does execute_query when the
\* statement it is given is a SELECT, SHOW or DESCRIBE.
C4_ListToolsReadOnly ==
    [][(\/ last'.tool \in {"list_databases", "list_schemas", "list_tables", "describe_table"}
        \/ /\ last'.tool = "execute_query"
           /\ StatementType(last'.args.query) \in {kwSELECT, kwSHOW, kwDESCRIBE})
       => schema' = schema]_vars

\* a describe_table call that ran both its statements
C4_Witness ==
    /\ last.tool = "describe_table"
    /\ last.envelope.success
    /\ Len(last.sent) = 2

\* C5: in a process whose environment lacks one of account, user, password
\* (unset or empty) no tool is ever registered and the process does not serve.
C5_NoToolsWithoutCredentials ==
    (\E k \in RequiredKeys : env[k] = None \/ env[k] = Some(<<>>)) =>
        /\ tools = {}
        /\ pc # "serving"
        /\ last.tool \notin ToolIds

\* C6: when the query text contains LIMIT in any letter case, execute_query
\* sends the text unchanged whatever the limit argument is.
C6_LimitNotAppended ==
    LET q == last.args.query
        spelled(i) == /\ q[i] \in {"L", "l"} /\ q[i + 1] \in {"I", "i"}
                      /\ q[i + 2] \in {"M", "m"} /\ q[i + 3] \in {"I", "i"}
                      /\ q[i + 4] \in {"T", "t"}
    IN  (last.tool = "execute_query" /\ \E i \in 1 .. (Len(q) - 4) : spelled(i)) =>
            last.sent = <<q>>

\* a query spelling limit in lower case, called with a positive limit
C6_Witness ==
    /\ last.tool = "execute_query"
    /\ last.args.limit = Some(MaxLimit)
    /\ Contains(last.args.query, <<"l", "i", "m", "i", "t">>)
    /\ last.sent = <<last.args.query>>

\* the lines of a text
RECURSIVE LinesFrom(_, _, _)
LinesFrom(s, i, cur) ==
    IF i > Len(s) THEN <<cur>>
    ELSE IF s[i] = "\n" THEN <<cur>> \o LinesFrom(s, i + 1, <<>>)
    ELSE LinesFrom(s, i + 1, Append(cur, s[i]))

\* C7: in the statement create_table sends, the line of each column holds
\* NOT NULL exactly when the spec has nullable = false, DEFAULT exactly when
\* it has a default and COMMENT exactly when it has a comment.
C7_ColumnClauses ==
    (last.tool = "create_table" /\ last.sent # <<>>) =>
        LET cols == last.args.columns
            lines == LinesFrom(last.sent[1], 1, <<>>)
        IN  /\ Len(lines) = Len(cols) + 2
            /\ \A i \in DOMAIN cols :
                /\ Contains(lines[i + 1], <<"N", "O", "T", " ", "N", "U", "L", "L">>)
                     <=> ("nullable" \in DOMAIN cols[i] /\ cols[i]["nullable"] = FALSE)
                /\ Contains(lines[i + 1], <<"D", "E", "F", "A", "U", "L", "T">>)
                     <=> "default" \in DOMAIN cols[i]
                /\ Contains(lines[i + 1], <<"C", "O", "M", "M", "E", "N", "T">>)
                     <=> "comment" \in DOMAIN cols[i]

\* a table created from a column without nullable, default or comment
C7_Witness ==
    /\ last.tool = "create_table"
    /\ last.envelope.success
    /\ DOMAIN last.args.columns[1] = {"name", "type"}
    /\ ~Contains(last.sent[1], <<"N", "O", "T", " ", "N", "U", "L", "L">>)

\* C8: once the server runs, every declared search or analyst service with
\* a non-empty service_name has its tool search_<sanitized name> or
\* analyst_<sanitized name> registered, and nothing else is registered
\* besides the seven static tools.
C8_OneToolPerService ==
    LET wanted(prefix, services) ==
            {prefix \o Sanitize(services[i].service_name) :
                i \in {j \in DOMAIN services : services[j].service_name # <<>>}}
        dynamic == wanted(sSearch, config.search_services)
                       \cup wanted(sAnalyst, config.analyst_services)
    IN  pc # "start" => tools = StaticTools \cup dynamic

\* C9: a create_table call with a column spec lacking name or type, at any
\* position, returns a failure envelope, opens no connection, sends no
\* statement and leaves the remote schema state unchanged.
C9_MalformedColumnFailsEarly ==
    [][(/\ last'.tool = "create_table"
        /\ \E i \in DOMAIN last'.args.columns :
              {"name", "type"} \ DOMAIN last'.args.columns[i] # {})
       => /\ last'.returned
          /\ ~last'.envelope.success
          /\ last'.opened = 0
          /\ last'.sent = <<>>
          /\ schema' = schema]_vars

\* a call whose last column, after two well-formed ones, lacks its type
C9_Witness ==
    /\ last.tool = "create_table"
    /\ Len(last.args.columns) = MaxColumns
    /\ \A i \in 1 .. (MaxColumns - 1) : DOMAIN last.args.columns[i] = {"name", "type"}
    /\ DOMAIN last.args.columns[MaxColumns] = {"name"}
    /\ ~last.envelope.success
    /\ last.sent = <<>>

\* C10: with include_views = false a successful list_tables returns the
\* warehouse's rows whose kind is not VIEW, in the warehouse's order, count is
\* their number, and for a schema of one table and one view that is the table
\* alone.
C10_ListTablesSkipsViews ==
    (last.tool = "list_tables" /\ last.envelope.success /\ ~last.args.include_views) =>
        LET notViews == SelectSeq(last.rows, LAMBDA r : r.kind # "VIEW")
            tables == last.envelope.tables
        IN  /\ Len(tables) = Len(notViews)
            /\ \A i \in DOMAIN tables :
                  tables[i].name = notViews[i].name /\ tables[i].kind = notViews[i].kind
            /\ last.envelope.count = Len(tables)
            /\ (/\ Len(schema) = 2
                /\ {schema[1].kind, schema[2].kind} = {"TABLE", "VIEW"})
               => /\ Len(tables) = 1
                  /\ tables[1].kind = "TABLE"

\* the warehouse listed the table and the view, the tool returned the table
C10_Witness ==
    /\ last.tool = "list_tables"
    /\ last.envelope.success
    /\ ~last.args.include_views
    /\ Len(last.rows) = 2
    /\ \E i \in DOMAIN last.rows : last.rows[i].kind = "VIEW"
    /\ Len(last.envelope.tables) = 1

\* C11: once the server runs, sf_conn.connection_params equals what startup
\* built from the environment, after any sequence of tool calls and resource
\* reads; a tool call that opens a connection passes exactly these
\* parameters, the password among them when the environment sets it.
C11_ConnectionParamsImmutable ==
    pc # "start" =>
        /\ connection_params = GetConnectionParams(env)
        /\ (last.tool \in ToolIds /\ last.opened > 0) =>
              /\ last.connected_with = Some(GetConnectionParams(env))
              /\ env["password"] # None
                   => /\ "password" \in DOMAIN last.connected_with[1]
                      /\ last.connected_with[1]["password"] = env["password"][1]

\* get_connection_info returned the parameters without the password while
\* the stored ones still hold it
C11_Witness ==
    /\ last.tool = "get_connection_info"
    /\ "account" \in DOMAIN last.envelope.connection_params
    /\ "password" \notin DOMAIN last.envelope.connection_params
    /\ "password" \in DOMAIN connection_params

====
